---------------------------- MODULE Spec2Model ----------------------------
(***************************************************************************)
(* Icon-Decomposer: the decomposition pipeline of processor.py             *)
(* (IconProcessor.process_image and the stages it calls) on a scaled-down  *)
(* canvas.                                                                 *)
(*                                                                         *)
(* Numbers.  A pixel value is one colour channel, an integer 0..255 (the   *)
(* code treats the three channels alike, "for c in range(3)").  A layer's  *)
(* RGB entry n stands for the float n/255, a layer's alpha entry a stands  *)
(* for the float a/AlphaOne.  Arithmetic is exact; float32 rounding is not *)
(* modelled.                                                               *)
(*                                                                         *)
(* Library code.  skimage's SLIC, sklearn's KMeans and the LAB conversion  *)
(* are not part of the repository.  SLIC is a fixed table of partitions    *)
(* (perform_slic), KMeans.fit_predict a deterministic one-dimensional      *)
(* quantiser (fit_predict), rgb2lab the reading of the modelled channel.   *)
(* scipy's ndimage.label, cv2.dilate and cv2.GaussianBlur are computed.    *)
(***************************************************************************)
EXTENDS Integers, Sequences, FiniteSets, TLC

\* ------------------------------------------------------------------ bounds
\* The canvas (1024 x 1024 in the code) scaled down.
Width == 6
Height == 5
\* The largest number of layers requested where the label map is drawn freely.
MaxLayers == 3
\* The largest max_regions_per_color tried.
MaxRegions == 3
\* The number of process_image invocations.
MaxCalls == 2

\* ------------------------------------------------------- program constants
\* cv2.GaussianBlur(mask, (3, 3), 0.8): the normalised 3-tap kernel
\* (0.239, 0.522, 0.239), in thousandths.
KernelSide == 239
KernelCentre == 522
\* mask.sum() * 0.05: a significant component exceeds 5 percent.
SignificantPercent == 5
\* layer[:, :, 3] > 0.01: the statistics threshold, in percent of full alpha.
VisiblePercent == 1
\* image / 255.0
ColourMax == 255

\* Python's None, and a value that is not None.
None == << >>
Some(v) == <<v>>

\* -------------------------------------------------------------- the canvas
NPixels == Width * Height
Pixels == 1..NPixels
Row(p) == (p - 1) \div Width
Col(p) == (p - 1) % Width
Pix(r, c) == r * Width + c + 1

Abs(x) == IF x < 0 THEN -x ELSE x
Min(a, b) == IF a < b THEN a ELSE b
Max(a, b) == IF a > b THEN a ELSE b
SetMin(S) == CHOOSE x \in S : \A y \in S : x <= y
SetMax(S) == CHOOSE x \in S : \A y \in S : x >= y

RECURSIVE SumSet(_, _)
\* The sum of f over the set S of its arguments.
SumSet(f, S) ==
    IF S = {} THEN 0
    ELSE LET x == CHOOSE y \in S : TRUE IN f[x] + SumSet(f, S \ {x})

\* The pixels of a label map that carry label l: (pixel_clusters == l).
MaskOf(labels, l) == {p \in Pixels : labels[p] = l}
\* np.unique
Unique(labels) == {labels[p] : p \in Pixels}

\* ------------------------------------------------------------------ images
\* Two source images, already RGB and of canvas size.  Image "A" is a dark
\* band pattern on a light ground with a light speck in the last corner;
\* image "B" is four flat quadrants.
Images == {"A", "B"}
\* A third image, one flat colour, for the requests that ask for it.
UniformImages == {"U"}

\* The partitions SLIC returns (region ids dense from 0, every region
\* 4-connected).
\*   speck:  0 the last corner pixel, 1 the L around it, 2 two pixels in the
\*           first corner, 3 the band around them, 4 the rest (on the 6 x 5
\*           canvas 1, 3, 2, 5 and 19 pixels: the speck is exactly 5 percent
\*           of speck + rest)
\*   grid:   four blocks
\*   halves: left and right
\*   bands:  top and bottom
LayoutSpeck ==
    [p \in Pixels |->
        IF Row(p) = Height - 1 /\ Col(p) = Width - 1 THEN 0
        ELSE IF Row(p) >= Height - 2 /\ Col(p) >= Width - 2 THEN 1
        ELSE IF Row(p) = 0 /\ Col(p) <= 1 THEN 2
        ELSE IF (Row(p) <= 1 /\ Col(p) <= 2) \/ (Row(p) = 0 /\ Col(p) = 3) THEN 3
        ELSE 4]
LayoutGrid ==
    [p \in Pixels |->
        (IF Row(p) * 2 < Height THEN 0 ELSE 2) + (IF Col(p) * 2 < Width THEN 0 ELSE 1)]
LayoutHalves == [p \in Pixels |-> IF Col(p) * 2 < Width THEN 0 ELSE 1]
LayoutBands == [p \in Pixels |-> IF Row(p) * 2 < Height THEN 0 ELSE 1]

\* np.array(img): the pixel values of a source image.
ImagePixels(img) ==
    [p \in Pixels |->
        IF img = "U" THEN 128
        ELSE IF img = "A"
        THEN (IF LayoutSpeck[p] \in {1, 3} THEN 40 ELSE 200) + 5 * (p % 3)
        ELSE CASE LayoutGrid[p] = 0 -> ColourMax
               [] LayoutGrid[p] = 1 -> 0
               [] LayoutGrid[p] = 2 -> 90 + (p % 2)
               [] OTHER -> ColourMax - 1]

\* The image an array of pixel values was loaded from.
ImageOf(pixels) == CHOOSE img \in Images \cup UniformImages : ImagePixels(img) = pixels

\* --------------------------------------------------- request parameters
\* The /process handler's defaults for n_segments and compactness.
DefaultNSegments == 800
DefaultCompactness == 25
\* The values requests choose from: the default and a lower one.
NSegmentsValues == {DefaultNSegments, DefaultNSegments \div 2}
CompactnessValues == {DefaultCompactness, 10}

\* ---------------------------------------------------------- _perform_slic
\* segmentation.slic(smoothed, n_segments, compactness, ...): a function of
\* the image and the two partitioning parameters.  High compactness gives
\* regular blocks whatever the image, low compactness follows the colours.
perform_slic(image, n_segments, compactness) ==
    IF compactness >= DefaultCompactness
    THEN (IF n_segments >= DefaultNSegments THEN LayoutGrid ELSE LayoutHalves)
    ELSE IF n_segments >= DefaultNSegments
         THEN (IF ImageOf(image) = "A" THEN LayoutSpeck ELSE LayoutGrid)
         ELSE (IF ImageOf(image) = "A" THEN LayoutBands ELSE LayoutHalves)

\* ---------------------------------------------- _extract_superpixel_colors
\* colors[s] is the mean of the image over segment s, for s in
\* 0..segments.max(); a row whose segment has no pixel stays 0.
extract_superpixel_colors(image, segments) ==
    LET n_segments == SetMax(Unique(segments)) + 1
    IN  [s \in 0..(n_segments - 1) |->
            LET region == MaskOf(segments, s)
            IN  IF region = {} THEN 0
                ELSE SumSet(image, region) \div Cardinality(region)]

\* --------------------------------------------------------- _perform_kmeans
\* KMeans(n_clusters, random_state=42).fit_predict: deterministic in the
\* colours and n_clusters, equal colours get equal labels, labels lie in
\* 0..n_clusters-1.  Modelled as the uniform quantiser of the colour range
\* into n_clusters bins.
fit_predict(colors, n_clusters) ==
    LET values == {colors[s] : s \in DOMAIN colors}
        lo == SetMin(values)
        hi == SetMax(values)
    IN  [s \in DOMAIN colors |-> ((colors[s] - lo) * n_clusters) \div (hi - lo + 1)]

\* self.clusters: the unweighted centre of each cluster, zero for a cluster
\* without members.
cluster_centres(colors, cluster_labels, n_clusters) ==
    [i \in 0..(n_clusters - 1) |->
        LET members == {s \in DOMAIN colors : cluster_labels[s] = i}
        IN  IF members = {} THEN 0
            ELSE SumSet(colors, members) \div Cardinality(members)]

\* ------------------------------------------------------------ ndimage.label
\* Two pixels are neighbours under the default cross-shaped structure.
Adjacent(p, q) == Abs(Row(p) - Row(q)) + Abs(Col(p) - Col(q)) = 1

RECURSIVE Grow(_, _)
\* The pixels of mask reachable from the set S.
Grow(S, mask) ==
    LET next == S \cup {q \in mask : \E p \in S : Adjacent(p, q)}
    IN  IF next = S THEN S ELSE Grow(next, mask)

RECURSIVE ndimage_label(_)
\* The connected components of mask, numbered in raster order of their
\* first pixel: labeled == i is ndimage_label(mask)[i], num_features its
\* length.
ndimage_label(mask) ==
    IF mask = {} THEN << >>
    ELSE LET comp == Grow({SetMin(mask)}, mask)
         IN  <<comp>> \o ndimage_label(mask \ comp)

\* component_sizes.sort(key=size, reverse=True): the component numbers by
\* size, largest first; the sort is stable, so equal sizes keep their
\* numbering order.
sorted_components(labeled) ==
    LET n == Len(labeled)
        size(i) == Cardinality(labeled[i])
        before(j, i) == size(j) > size(i) \/ (size(j) = size(i) /\ j < i)
    IN  [k \in 1..n |->
            CHOOSE i \in 1..n : Cardinality({j \in 1..n : before(j, i)}) = k - 1]

\* ------------------------------------------------ _apply_distance_threshold
\* regions_to_create = min(num_features, max_regions_per_color)
regions_to_create(num_features, max_regions_per_color) ==
    Min(num_features, max_regions_per_color)

\* last_label = next_label - 1, read after the loop that allocates labels.
last_label(next_label) == next_label - 1

\* Mutant: every component is significant.
is_significant_always(size, total) == TRUE
\* Mutant: at least 5 percent rather than more than 5 percent.
is_significant_or_equal(size, total) == size * 100 >= total * SignificantPercent

\* c[1] > (mask.sum() * 0.05)
is_significant(size, total) == size * 100 > total * SignificantPercent

\* The entries of the sorted component list that are significant, in order.
significant_components(labeled, order) ==
    LET total == SumSet([i \in 1..Len(labeled) |-> Cardinality(labeled[i])],
                        1..Len(labeled))
    IN  SelectSeq(order, LAMBDA i : is_significant(Cardinality(labeled[i]), total))

\* One iteration of "for cluster_id in range(n_layers)": the label map
\* result and the counter next_label after it.  The mask is taken from the
\* input map pixel_clusters, the writes go to result.
split_cluster(result, next_label, pixel_clusters, cluster_id, threshold, max_regions_per_color) ==
    LET mask == MaskOf(pixel_clusters, cluster_id)
        labeled == ndimage_label(mask)
        num_features == Len(labeled)
        order == sorted_components(labeled)
        \* component_sizes[idx], idx counted from 0 as in the code
        comp(idx) == labeled[order[idx + 1]]
        regions == regions_to_create(num_features, max_regions_per_color)
        \* for idx in range(1, regions_to_create)
        split == 1..(regions - 1)
        \* for idx in range(regions_to_create, num_features)
        rest == {idx \in regions..(num_features - 1) : idx >= 0}
        after == next_label + Cardinality(split)
        significant == significant_components(labeled, order)
        \* for idx in range(1, min(len(significant_components), max_regions))
        sig_split == 1..(Min(Len(significant), max_regions_per_color) - 1)
    IN  IF num_features > 1 /\ num_features > max_regions_per_color
        THEN [result |->
                [p \in Pixels |->
                    IF \E idx \in rest : p \in comp(idx)
                    THEN last_label(after)
                    ELSE IF \E idx \in split : p \in comp(idx)
                    THEN next_label + (CHOOSE idx \in split : p \in comp(idx)) - 1
                    ELSE result[p]],
              next_label |-> after]
        ELSE IF num_features > 1 /\ threshold = "auto" /\ Len(significant) > 1
        THEN [result |->
                [p \in Pixels |->
                    IF \E idx \in sig_split : p \in labeled[significant[idx + 1]]
                    THEN next_label
                         + (CHOOSE idx \in sig_split : p \in labeled[significant[idx + 1]])
                         - 1
                    ELSE result[p]],
              next_label |-> next_label + Cardinality(sig_split)]
        ELSE [result |-> result, next_label |-> next_label]

RECURSIVE split_loop(_, _, _, _, _, _)
\* The loop over cluster_id = from..n_layers-1, started with st.
split_loop(st, pixel_clusters, from, n_layers, threshold, max_regions_per_color) ==
    IF from >= n_layers THEN st
    ELSE split_loop(split_cluster(st.result, st.next_label, pixel_clusters, from,
                                  threshold, max_regions_per_color),
                    pixel_clusters, from + 1, n_layers, threshold,
                    max_regions_per_color)

\* The label map _apply_distance_threshold returns.
apply_distance_threshold(pixel_clusters, threshold, n_layers, max_regions_per_color) ==
    split_loop([result |-> pixel_clusters, next_label |-> n_layers],
               pixel_clusters, 0, n_layers, threshold, max_regions_per_color).result

\* --------------------------------------------------------- _generate_layers
\* Full alpha: the denominator of the blurred mask (the square of the
\* kernel's sum).
AlphaOne == (KernelCentre + 2 * KernelSide) * (KernelCentre + 2 * KernelSide)

\* Mutant: no dilation, the colours are taken under the mask alone.
dilate_none(mask) == mask

\* cv2.dilate(mask, np.ones((3, 3)), iterations=1): the pixels with a pixel
\* of the mask in their 3x3 neighbourhood (the border adds nothing).
dilate(mask) ==
    UNION {{Pix(r, c) : r \in Max(0, Row(q) - 1)..Min(Height - 1, Row(q) + 1),
                       c \in Max(0, Col(q) - 1)..Min(Width - 1, Col(q) + 1)} :
           q \in mask}

\* BORDER_REFLECT_101, the default border of cv2.GaussianBlur.
reflect101(i, n) == IF i < 0 THEN -i ELSE IF i >= n THEN 2 * (n - 1) - i ELSE i

\* Mutant: a kernel that is not normalised, every tap as heavy as the centre.
kernel_flat(d) == KernelCentre

\* The 1-D Gaussian kernel of size 3 and sigma 0.8, in thousandths.
kernel(d) == IF d = 0 THEN KernelCentre ELSE KernelSide

\* cv2.GaussianBlur(mask, (3, 3), 0.8) at pixel p, in units of 1/AlphaOne.
GaussianBlur(mask, p) ==
    LET tap(dr, dc) ==
            IF Pix(reflect101(Row(p) + dr, Height), reflect101(Col(p) + dc, Width))
               \in mask
            THEN kernel(dr) * kernel(dc) ELSE 0
    IN  tap(-1, -1) + tap(-1, 0) + tap(-1, 1)
        + tap(0, -1) + tap(0, 0) + tap(0, 1)
        + tap(1, -1) + tap(1, 0) + tap(1, 1)

\* Mutant: the hard branch takes the dilated mask as alpha.
make_layer_hard_dilated(image, mask, edge_mode) ==
    LET dilated_mask == dilate(mask)
    IN  IF edge_mode = "hard"
        THEN [rgb |-> [p \in Pixels |-> IF p \in mask THEN image[p] ELSE 0],
              alpha |-> [p \in Pixels |-> IF p \in dilated_mask THEN AlphaOne ELSE 0]]
        ELSE [rgb |-> [p \in Pixels |-> IF p \in dilated_mask THEN image[p] ELSE 0],
              alpha |-> [p \in Pixels |-> GaussianBlur(mask, p)]]

\* Mutant: the soft branch multiplies the colours by the blurred alpha.
make_layer_premultiplied(image, mask, edge_mode) ==
    IF edge_mode = "hard"
    THEN [rgb |-> [p \in Pixels |-> IF p \in mask THEN image[p] ELSE 0],
          alpha |-> [p \in Pixels |-> IF p \in mask THEN AlphaOne ELSE 0]]
    ELSE LET dilated_mask == dilate(mask)
         IN  [rgb |-> [p \in Pixels |->
                        IF p \in dilated_mask
                        THEN (image[p] * GaussianBlur(mask, p)) \div AlphaOne ELSE 0],
              alpha |-> [p \in Pixels |-> GaussianBlur(mask, p)]]

\* The RGBA layer of one label.
make_layer(image, mask, edge_mode) ==
    IF edge_mode = "hard"
    THEN [rgb |-> [p \in Pixels |-> IF p \in mask THEN image[p] ELSE 0],
          alpha |-> [p \in Pixels |-> IF p \in mask THEN AlphaOne ELSE 0]]
    ELSE LET dilated_mask == dilate(mask)
         IN  [rgb |-> [p \in Pixels |-> IF p \in dilated_mask THEN image[p] ELSE 0],
              alpha |-> [p \in Pixels |-> GaussianBlur(mask, p)]]

\* cluster_sizes.sort(key=size, reverse=True) over np.unique(pixel_clusters):
\* the labels by pixel count, largest first; the sort is stable, so equal
\* counts keep ascending label order.
sorted_clusters(pixel_clusters) ==
    LET unique_clusters == Unique(pixel_clusters)
        size(l) == Cardinality(MaskOf(pixel_clusters, l))
        before(m, l) == size(m) > size(l) \/ (size(m) = size(l) /\ m < l)
    IN  [k \in 1..Cardinality(unique_clusters) |->
            CHOOSE l \in unique_clusters :
                Cardinality({m \in unique_clusters : before(m, l)}) = k - 1]

\* The list of layers, one per label that has pixels.
generate_layers(image, pixel_clusters, edge_mode) ==
    LET order == sorted_clusters(pixel_clusters)
    IN  [k \in 1..Len(order) |->
            make_layer(image, MaskOf(pixel_clusters, order[k]), edge_mode)]

\* ----------------------------------------------------- _calculate_statistics
\* mask = layer[:, :, 3] > 0.01
visible(layer) == {p \in Pixels : layer.alpha[p] * 100 > VisiblePercent * AlphaOne}

\* Mutant: the colour is averaged over every pixel of the layer.
layer_statistics_all_pixels(i, layer) ==
    LET pixel_count == Cardinality(visible(layer))
    IN  [layer_id |-> i,
         pixel_count |-> pixel_count,
         percentage |-> (2 * pixel_count * 10000 + NPixels) \div (2 * NPixels),
         average_color_rgb |-> SumSet(layer.rgb, Pixels) \div NPixels]

\* One entry of layer_sizes.  percentage is in hundredths of a percent of
\* the canvas, rounded to the nearest (round(percentage, 2)).
layer_statistics(i, layer) ==
    LET mask == visible(layer)
        pixel_count == Cardinality(mask)
    IN  [layer_id |-> i,
         pixel_count |-> pixel_count,
         percentage |-> (2 * pixel_count * 10000 + NPixels) \div (2 * NPixels),
         average_color_rgb |->
            IF pixel_count > 0 THEN SumSet(layer.rgb, mask) \div pixel_count ELSE 0]

\* stats: n_layers and layer_sizes, the latter sorted by pixel_count,
\* largest first (stable).
calculate_statistics(pixel_clusters, layers) ==
    LET n == Len(layers)
        entry == [i \in 1..n |-> layer_statistics(i - 1, layers[i])]
        before(j, i) == entry[j].pixel_count > entry[i].pixel_count
                        \/ (entry[j].pixel_count = entry[i].pixel_count /\ j < i)
    IN  [n_layers |-> n,
         layer_sizes |->
            [k \in 1..n |->
                entry[CHOOSE i \in 1..n :
                        Cardinality({j \in 1..n : before(j, i)}) = k - 1]]]

\* ------------------------------------------------------------- stacking
\* reconstruction += layer[:, :, :3] * alpha, summed over the layers (without
\* the conversions to 8 bits the preview and /reconstruct add): the
\* value at pixel p, in units of 1/(255 * AlphaOne).
stack(layers, p) ==
    SumSet([i \in 1..Len(layers) |-> layers[i].rgb[p] * layers[i].alpha[p]],
           1..Len(layers))

\* -------------------------------------------------- _generate_visualizations
\* (layer * 255).astype(np.uint8) of an alpha entry, then / 255.0: the alpha
\* in units of 1/255.
alpha_uint8(a) == (a * ColourMax) \div AlphaOne

\* The reconstruction preview: the layers, each converted to uint8, stacked
\* and converted to uint8 again.  (The resize to 256 x 256 is left out.)
reconstruction_preview(layer_list) ==
    [p \in Pixels |->
        Min(ColourMax,
            SumSet([i \in 1..Len(layer_list) |->
                        layer_list[i].rgb[p] * alpha_uint8(layer_list[i].alpha[p])],
                   1..Len(layer_list)) \div ColourMax)]

\* The three static visualizations, generated from the image, the
\* superpixels and their colours.
static_visualizations(image, segments, colors) ==
    [original |-> image,
     superpixels |-> [image |-> image, boundaries |-> segments],
     superpixel_colors |->
        [p \in Pixels |-> IF segments[p] \in DOMAIN colors THEN colors[segments[p]] ELSE 0]]

\* The clustered image: each pixel in its cluster's centre colour, black
\* for a label beyond the centres.
clustered_image(centres, pixel_clusters) ==
    [p \in Pixels |->
        IF centres # None /\ pixel_clusters[p] \in DOMAIN centres
        THEN centres[pixel_clusters[p]] ELSE 0]

\* ================================================================ state
VARIABLES
    \* the fields of the one IconProcessor instance (server.py: processor)
    original_image,     \* self.original_image
    superpixels,        \* self.superpixels
    clusters,           \* self.clusters
    layers,             \* self.layers
    cache,              \* self.cache
    \* the invocations of process_image, one per call slot
    pc,                 \* where the invocation stands
    params,             \* its params (with the image behind image_path)
    local,              \* its local variables
    result,             \* its result dict
    \* the /process handler around it (server.py)
    response,           \* what the handler has answered, None before
    uploads             \* the requests whose saved upload is in the upload folder

vars == <<original_image, superpixels, clusters, layers, cache, pc, params, local, result, response, uploads>>
processor == <<original_image, superpixels, clusters, layers, cache>>

Calls == 1..MaxCalls

EdgeModes == {"hard", "soft"}
\* distance_threshold: 'off', 'auto', or any other string of the form field.
ThresholdValues == {"off", "auto", "20"}

\* hashlib.sha256(file_content).hexdigest()[:16]: the cache key the /process
\* handler passes, one per file content.
content_hash(image) == image

\* The local variables of an invocation before their first assignment.
NoLocal ==
    [can_reuse_superpixels |-> FALSE, superpixel_colors |-> None,
     cluster_labels |-> None, pixel_clusters |-> None,
     split_result |-> None, next_label |-> 0, cluster_id |-> 0]

\* IconProcessor.__init__: the cache's fields are None; the key
\* 'static_visualizations' is absent until the first visualization, which
\* None stands for as well.
EmptyCache ==
    [image_path |-> None, superpixels |-> None, superpixel_colors |-> None,
     n_segments |-> None, compactness |-> None, static_visualizations |-> None]

InitProcessor ==
    /\ original_image = None
    /\ superpixels = None
    /\ clusters = None
    /\ layers = None
    /\ cache = EmptyCache

Init ==
    /\ InitProcessor
    /\ pc = [i \in Calls |-> "idle"]
    /\ params = [i \in Calls |-> None]
    /\ local = [i \in Calls |-> NoLocal]
    /\ result = [i \in Calls |-> None]
    /\ response = [i \in Calls |-> None]
    /\ uploads = {}

\* ------------------------------------------------------------ process_image
\* The params a request passes.  The /process handler fills every field
\* (server.py), with the content hash as cache_key.
Requests ==
    [image : Images,
     n_layers : {2, 3},
     n_segments : NSegmentsValues,
     compactness : CompactnessValues,
     distance_threshold : {"auto"},
     max_regions_per_color : {2},
     edge_mode : {"soft"},
     visualize_steps : BOOLEAN]

\* A call of processor.process_image(filepath, params).
Begin(i, request) ==
    /\ pc[i] = "idle"
    /\ pc' = [pc EXCEPT ![i] = "load"]
    /\ params' = [params EXCEPT ![i] = request]
    /\ UNCHANGED <<processor, local, result, response, uploads>>

\* server.py 74-127, the /process handler up to the call: the upload is
\* saved into the upload folder (line 121) and process_image is called on
\* it with the form's parameters.
Receive(i, request) ==
    /\ pc[i] = "idle"
    /\ pc' = [pc EXCEPT ![i] = "load"]
    /\ params' = [params EXCEPT ![i] = request]
    /\ uploads' = uploads \cup {i}
    /\ UNCHANGED <<processor, local, result, response>>

\* Lines 32-60: the image is opened and stored in self.original_image, the
\* result dict is created.
Load(i) ==
    /\ pc[i] = "load"
    /\ original_image' = ImagePixels(params[i].image)
    /\ result' = [result EXCEPT ![i] =
            [status |-> "success", layers |-> << >>, statistics |-> << >>,
             visualizations |-> << >>]]
    /\ pc' = [pc EXCEPT ![i] = "check"]
    /\ UNCHANGED <<superpixels, clusters, layers, cache, params, local, response, uploads>>

\* Mutant: the key alone decides, n_segments and compactness are ignored.
can_reuse_key_only(entry, request) ==
    /\ entry.image_path = Some(content_hash(request.image))
    /\ entry.superpixels # None
    /\ entry.superpixel_colors # None

\* Mutant: n_segments and compactness decide, the key is ignored.
can_reuse_parameters_only(entry, request) ==
    /\ entry.n_segments = Some(request.n_segments)
    /\ entry.compactness = Some(request.compactness)
    /\ entry.superpixels # None
    /\ entry.superpixel_colors # None

\* Mutant: the cache never matches.
can_reuse_never(entry, request) == FALSE

\* Lines 63-70: can_reuse_superpixels.
can_reuse(entry, request) ==
    /\ entry.image_path = Some(content_hash(request.image))
    /\ entry.n_segments = Some(request.n_segments)
    /\ entry.compactness = Some(request.compactness)
    /\ entry.superpixels # None
    /\ entry.superpixel_colors # None

\* Lines 63-77: the cache check and, on a hit, the reuse of the cached
\* superpixels and colours.
CacheCheck(i) ==
    /\ pc[i] = "check"
    /\ IF can_reuse(cache, params[i])
       THEN /\ superpixels' = cache.superpixels
            /\ local' = [local EXCEPT ![i].can_reuse_superpixels = TRUE,
                                       ![i].superpixel_colors = cache.superpixel_colors]
            /\ pc' = [pc EXCEPT ![i] = "kmeans"]
       ELSE /\ local' = [local EXCEPT ![i].can_reuse_superpixels = FALSE]
            /\ pc' = [pc EXCEPT ![i] = "slic"]
            /\ UNCHANGED superpixels
    /\ UNCHANGED <<original_image, clusters, layers, cache, params, result, response, uploads>>

\* Lines 79-87: Step 1, self.superpixels = self._perform_slic(...).  What
\* segmentation.slic does with n_segments <= 0 depends on the library
\* version: it raises, or it returns some partition.
Slic(i) ==
    /\ pc[i] = "slic"
    /\ \/ /\ superpixels' = perform_slic(original_image, params[i].n_segments,
                                          params[i].compactness)
          /\ pc' = [pc EXCEPT ![i] = "extract"]
       \/ /\ params[i].n_segments <= 0
          /\ pc' = [pc EXCEPT ![i] = "raised"]
          /\ UNCHANGED superpixels
    /\ UNCHANGED <<original_image, clusters, layers, cache, params, local, result, response, uploads>>

\* Lines 89-95: Step 2, the colour of every superpixel.
Extract(i) ==
    /\ pc[i] = "extract"
    /\ local' = [local EXCEPT ![i].superpixel_colors =
                    extract_superpixel_colors(original_image, superpixels)]
    /\ pc' = [pc EXCEPT ![i] = "cache_image_path"]
    /\ UNCHANGED <<processor, params, result, response, uploads>>

\* Mutant: the cache keeps the colours at half precision.
CacheUpdate_lossy(i) ==
    /\ \/ /\ pc[i] = "cache_image_path"
          /\ cache' = [cache EXCEPT !.image_path = Some(content_hash(params[i].image))]
          /\ pc' = [pc EXCEPT ![i] = "cache_n_segments"]
       \/ /\ pc[i] = "cache_n_segments"
          /\ cache' = [cache EXCEPT !.n_segments = Some(params[i].n_segments)]
          /\ pc' = [pc EXCEPT ![i] = "cache_compactness"]
       \/ /\ pc[i] = "cache_compactness"
          /\ cache' = [cache EXCEPT !.compactness = Some(params[i].compactness)]
          /\ pc' = [pc EXCEPT ![i] = "cache_superpixels"]
       \/ /\ pc[i] = "cache_superpixels"
          /\ cache' = [cache EXCEPT !.superpixels = superpixels]
          /\ pc' = [pc EXCEPT ![i] = "cache_superpixel_colors"]
       \/ /\ pc[i] = "cache_superpixel_colors"
          /\ cache' = [cache EXCEPT !.superpixel_colors =
                            [s \in DOMAIN local[i].superpixel_colors |->
                                2 * (local[i].superpixel_colors[s] \div 50)]]
          /\ pc' = [pc EXCEPT ![i] = "kmeans"]
    /\ UNCHANGED <<original_image, superpixels, clusters, layers, params, local, result, response, uploads>>

\* Lines 97-102: the five assignments that update the cache, one step each.
CacheUpdate(i) ==
    /\ \/ /\ pc[i] = "cache_image_path"
          /\ cache' = [cache EXCEPT !.image_path = Some(content_hash(params[i].image))]
          /\ pc' = [pc EXCEPT ![i] = "cache_n_segments"]
       \/ /\ pc[i] = "cache_n_segments"
          /\ cache' = [cache EXCEPT !.n_segments = Some(params[i].n_segments)]
          /\ pc' = [pc EXCEPT ![i] = "cache_compactness"]
       \/ /\ pc[i] = "cache_compactness"
          /\ cache' = [cache EXCEPT !.compactness = Some(params[i].compactness)]
          /\ pc' = [pc EXCEPT ![i] = "cache_superpixels"]
       \/ /\ pc[i] = "cache_superpixels"
          /\ cache' = [cache EXCEPT !.superpixels = superpixels]
          /\ pc' = [pc EXCEPT ![i] = "cache_superpixel_colors"]
       \/ /\ pc[i] = "cache_superpixel_colors"
          /\ cache' = [cache EXCEPT !.superpixel_colors = local[i].superpixel_colors]
          /\ pc' = [pc EXCEPT ![i] = "kmeans"]
    /\ UNCHANGED <<original_image, superpixels, clusters, layers, params, local, result, response, uploads>>

\* KMeans(n_clusters).fit_predict(X) raises ValueError unless
\* 1 <= n_clusters <= n_samples.
kmeans_accepts(colors, n_clusters) ==
    n_clusters >= 1 /\ n_clusters <= Cardinality(DOMAIN colors)

\* Lines 104-110 and _perform_kmeans: Step 3; self.clusters is set on the
\* way.  A ValueError of fit_predict leaves process_image.
KMeans(i) ==
    /\ pc[i] = "kmeans"
    /\ IF kmeans_accepts(local[i].superpixel_colors, params[i].n_layers)
       THEN LET labels == fit_predict(local[i].superpixel_colors, params[i].n_layers)
            IN  /\ local' = [local EXCEPT ![i].cluster_labels = labels]
                /\ clusters' = cluster_centres(local[i].superpixel_colors, labels,
                                                params[i].n_layers)
                /\ pc' = [pc EXCEPT ![i] = "map"]
       ELSE /\ pc' = [pc EXCEPT ![i] = "raised"]
            /\ UNCHANGED <<local, clusters>>
    /\ UNCHANGED <<original_image, superpixels, layers, cache, params, result, response, uploads>>

\* Mutant: the splitter runs whatever distance_threshold is.
MapClusters_always_split(i) ==
    /\ pc[i] = "map"
    /\ IF \E p \in Pixels : superpixels[p] \notin DOMAIN local[i].cluster_labels
       THEN /\ pc' = [pc EXCEPT ![i] = "raised"]
            /\ UNCHANGED local
       ELSE LET pixel_clusters == [p \in Pixels |-> local[i].cluster_labels[superpixels[p]]]
            IN  /\ local' = [local EXCEPT ![i].pixel_clusters = pixel_clusters,
                                           ![i].split_result = pixel_clusters,
                                           ![i].next_label = params[i].n_layers,
                                           ![i].cluster_id = 0]
                /\ pc' = [pc EXCEPT ![i] = "split"]
    /\ UNCHANGED <<processor, params, result, response, uploads>>

\* cluster_labels[self.superpixels]
map_to_pixels(cluster_labels, segments) == [p \in Pixels |-> cluster_labels[segments[p]]]

\* Lines 112-116 and 243-244: Step 4, the clusters mapped back to pixels
\* (an IndexError when a superpixel has no cluster label); with the splitter
\* on, its result copy and label counter are set up.
MapClusters(i) ==
    /\ pc[i] = "map"
    /\ IF \E p \in Pixels : superpixels[p] \notin DOMAIN local[i].cluster_labels
       THEN /\ pc' = [pc EXCEPT ![i] = "raised"]
            /\ UNCHANGED local
       ELSE LET pixel_clusters == map_to_pixels(local[i].cluster_labels, superpixels)
            IN  IF params[i].distance_threshold # "off"
                THEN /\ local' = [local EXCEPT ![i].pixel_clusters = pixel_clusters,
                                                ![i].split_result = pixel_clusters,
                                                ![i].next_label = params[i].n_layers,
                                                ![i].cluster_id = 0]
                     /\ pc' = [pc EXCEPT ![i] = "split"]
                ELSE /\ local' = [local EXCEPT ![i].pixel_clusters = pixel_clusters]
                     /\ pc' = [pc EXCEPT ![i] = "layers"]
    /\ UNCHANGED <<processor, params, result, response, uploads>>

\* Lines 246-293: one iteration of the splitter's loop over the clusters.
SplitStep(i) ==
    /\ pc[i] = "split"
    /\ local[i].cluster_id < params[i].n_layers
    /\ LET st == split_cluster(local[i].split_result, local[i].next_label,
                                local[i].pixel_clusters, local[i].cluster_id,
                                params[i].distance_threshold,
                                params[i].max_regions_per_color)
       IN  local' = [local EXCEPT ![i].split_result = st.result,
                                  ![i].next_label = st.next_label,
                                  ![i].cluster_id = @ + 1]
    /\ UNCHANGED <<processor, pc, params, result, response, uploads>>

\* Lines 295 and 118: the splitter returns, pixel_clusters is replaced.
SplitReturn(i) ==
    /\ pc[i] = "split"
    /\ local[i].cluster_id >= params[i].n_layers
    /\ local' = [local EXCEPT ![i].pixel_clusters = local[i].split_result]
    /\ pc' = [pc EXCEPT ![i] = "layers"]
    /\ UNCHANGED <<processor, params, result, response, uploads>>

\* Lines 126-134: Step 6, self.layers = self._generate_layers(...).
GenerateLayers(i) ==
    /\ pc[i] = "layers"
    /\ layers' = generate_layers(original_image, local[i].pixel_clusters,
                                  params[i].edge_mode)
    /\ pc' = [pc EXCEPT ![i] = "result_layers"]
    /\ UNCHANGED <<original_image, superpixels, clusters, cache, params, local, result, response, uploads>>

\* Line 136: result['layers'] = self.layers.
ResultLayers(i) ==
    /\ pc[i] = "result_layers"
    /\ result' = [result EXCEPT ![i].layers = layers]
    /\ pc' = [pc EXCEPT ![i] =
                IF params[i].visualize_steps THEN "visualize" ELSE "statistics"]
    /\ UNCHANGED <<processor, params, local, response, uploads>>

\* Lines 138-149 and _generate_visualizations.  When the static images are
\* generated, lab_to_rgb_colors[i] is an IndexError for a superpixel of
\* self.superpixels beyond the invocation's colours.
Visualize(i) ==
    /\ pc[i] = "visualize"
    /\ LET dynamic == [clustered |-> clustered_image(clusters, local[i].pixel_clusters),
                       reconstruction |-> reconstruction_preview(layers)]
           fresh == static_visualizations(original_image, superpixels,
                                          local[i].superpixel_colors)
       IN  IF ~local[i].can_reuse_superpixels
           THEN IF \E p \in Pixels : superpixels[p] \notin DOMAIN local[i].superpixel_colors
                THEN /\ pc' = [pc EXCEPT ![i] = "raised"]
                     /\ UNCHANGED <<cache, result>>
                ELSE /\ cache' = [cache EXCEPT !.static_visualizations = fresh]
                     /\ result' = [result EXCEPT ![i].visualizations = fresh @@ dynamic]
                     /\ pc' = [pc EXCEPT ![i] = "statistics"]
           ELSE /\ result' = [result EXCEPT ![i].visualizations =
                                cache.static_visualizations @@ dynamic]
                /\ pc' = [pc EXCEPT ![i] = "statistics"]
                /\ UNCHANGED cache
    /\ UNCHANGED <<original_image, superpixels, clusters, layers, params, local, response, uploads>>

\* Lines 151-160: the statistics, then return result.
Statistics(i) ==
    /\ pc[i] = "statistics"
    /\ result' = [result EXCEPT ![i].statistics =
                    calculate_statistics(local[i].pixel_clusters, layers)]
    /\ pc' = [pc EXCEPT ![i] = "done"]
    /\ UNCHANGED <<processor, params, local, response, uploads>>

\* server.py, (layer * 255).astype(np.uint8): a layer as the 8-bit RGBA
\* image the response carries.  (PNG and base64 are left out, and so is the
\* resize of the preview.)
encode_layer(layer) ==
    [rgb |-> layer.rgb, alpha |-> [p \in Pixels |-> alpha_uint8(layer.alpha[p])]]

\* Mutant: a failure is answered with what the result dict holds so far.
Respond_partial(i) ==
    /\ pc[i] \in {"done", "raised"}
    /\ response[i] = None
    /\ response' = [response EXCEPT ![i] =
            Some([code |-> IF pc[i] = "done" THEN 200 ELSE 500,
                  body |-> [status |-> result[i].status,
                            layers |-> [k \in DOMAIN result[i].layers |->
                                            encode_layer(result[i].layers[k])],
                            layers_full |-> [k \in DOMAIN result[i].layers |->
                                            encode_layer(result[i].layers[k])],
                            statistics |-> result[i].statistics,
                            visualizations |-> result[i].visualizations]])]
    /\ uploads' = IF pc[i] = "done" THEN uploads \ {i} ELSE uploads
    /\ UNCHANGED <<processor, pc, params, local, result>>

\* server.py, the /process handler after process_image: when the call has
\* returned the upload is removed (os.remove, line 131) and the result with
\* its layers encoded is the response; any exception of process_image is
\* caught and answered with an error object and status 500 (185-188), the
\* removal skipped.
Respond(i) ==
    /\ pc[i] \in {"done", "raised"}
    /\ response[i] = None
    /\ response' = [response EXCEPT ![i] =
            IF pc[i] = "done"
            THEN Some([code |-> 200,
                       body |-> [status |-> result[i].status,
                                 layers |-> [k \in DOMAIN result[i].layers |->
                                                encode_layer(result[i].layers[k])],
                                 layers_full |-> [k \in DOMAIN result[i].layers |->
                                                encode_layer(result[i].layers[k])],
                                 statistics |-> result[i].statistics,
                                 visualizations |-> result[i].visualizations]])
            ELSE Some([code |-> 500, body |-> [error |-> "str(e)"]])]
    /\ uploads' = IF pc[i] = "done" THEN uploads \ {i} ELSE uploads
    /\ UNCHANGED <<processor, pc, params, local, result>>

\* The steps of an invocation under way.
Step(i) ==
    \/ Load(i) \/ CacheCheck(i) \/ Slic(i) \/ Extract(i) \/ CacheUpdate(i)
    \/ KMeans(i) \/ MapClusters(i) \/ SplitStep(i) \/ SplitReturn(i)
    \/ GenerateLayers(i) \/ ResultLayers(i) \/ Visualize(i) \/ Statistics(i)

\* ------------------------------------------------------- sequential calls
\* One caller: call i starts when the calls before it have returned or
\* raised.
BeginNext ==
    \E i \in Calls, request \in Requests :
        /\ \A j \in Calls : j < i => pc[j] \in {"done", "raised"}
        /\ Begin(i, request)

Load1 == \E i \in Calls : Load(i)
CacheCheck1 == \E i \in Calls : CacheCheck(i)
Slic1 == \E i \in Calls : Slic(i)
Extract1 == \E i \in Calls : Extract(i)
CacheUpdate1 == \E i \in Calls : CacheUpdate(i)
KMeans1 == \E i \in Calls : KMeans(i)
MapClusters1 == \E i \in Calls : MapClusters(i)
SplitStep1 == \E i \in Calls : SplitStep(i)
SplitReturn1 == \E i \in Calls : SplitReturn(i)
GenerateLayers1 == \E i \in Calls : GenerateLayers(i)
ResultLayers1 == \E i \in Calls : ResultLayers(i)
Visualize1 == \E i \in Calls : Visualize(i)
Statistics1 == \E i \in Calls : Statistics(i)
Respond1 == \E i \in Calls : Respond(i)

Next ==
    \/ BeginNext
    \/ Load1 \/ CacheCheck1 \/ Slic1 \/ Extract1 \/ CacheUpdate1 \/ KMeans1
    \/ MapClusters1 \/ SplitStep1 \/ SplitReturn1 \/ GenerateLayers1
    \/ ResultLayers1 \/ Visualize1 \/ Statistics1

Spec == Init /\ [][Next]_vars

\* ------------------------------------- the stages after clustering, alone
\* One invocation, taken at the return of _perform_kmeans: the image is
\* loaded, partitioned and cached, and the labelling KMeans returned is any
\* assignment of the superpixels to 0..n_layers-1.  The splitter, the layer
\* synthesizer and the statistics then run on every such label map, for
\* every splitter setting and both edge modes.
StageRequests ==
    [image : Images,
     n_layers : 1..MaxLayers,
     n_segments : {DefaultNSegments},
     compactness : {SetMin(CompactnessValues)},
     distance_threshold : ThresholdValues,
     max_regions_per_color : 1..MaxRegions,
     edge_mode : EdgeModes,
     visualize_steps : {FALSE}]

InitStages ==
    \E request \in StageRequests :
        LET image == ImagePixels(request.image)
            segments == perform_slic(image, request.n_segments, request.compactness)
            colors == extract_superpixel_colors(image, segments)
        IN  \E labels \in [DOMAIN colors -> 0..(request.n_layers - 1)] :
                /\ original_image = image
                /\ superpixels = segments
                /\ clusters = cluster_centres(colors, labels, request.n_layers)
                /\ layers = None
                /\ cache = [image_path |-> Some(content_hash(request.image)),
                            superpixels |-> segments,
                            superpixel_colors |-> colors,
                            n_segments |-> Some(request.n_segments),
                            compactness |-> Some(request.compactness),
                            static_visualizations |-> None]
                /\ pc = [i \in Calls |-> IF i = 1 THEN "map" ELSE "idle"]
                /\ params = [i \in Calls |-> IF i = 1 THEN request ELSE None]
                /\ local = [i \in Calls |->
                                IF i = 1
                                THEN [NoLocal EXCEPT !.superpixel_colors = colors,
                                                     !.cluster_labels = labels]
                                ELSE NoLocal]
                /\ result = [i \in Calls |->
                                IF i = 1
                                THEN [status |-> "success", layers |-> << >>,
                                      statistics |-> << >>, visualizations |-> << >>]
                                ELSE None]
                /\ response = [i \in Calls |-> None]
                /\ uploads = {}

NextStages ==
    \/ MapClusters1 \/ SplitStep1 \/ SplitReturn1 \/ GenerateLayers1
    \/ ResultLayers1 \/ Statistics1

SpecStages == InitStages /\ [][NextStages]_vars

\* ------------------------------------------------------ concurrent calls
\* The /process handler calls processor.process_image on the one module-level
\* instance without a lock, and the development server handles requests in
\* threads: the steps of two invocations interleave freely.
ConcRequests ==
    [image : Images,
     n_layers : {2},
     n_segments : {DefaultNSegments},
     compactness : {SetMin(CompactnessValues)},
     distance_threshold : {"auto"},
     max_regions_per_color : {2},
     edge_mode : {"soft"},
     visualize_steps : {TRUE}]

BeginAny == \E i \in Calls, request \in ConcRequests : Receive(i, request)

NextConc ==
    \/ BeginAny
    \/ Load1 \/ CacheCheck1 \/ Slic1 \/ Extract1 \/ CacheUpdate1 \/ KMeans1
    \/ MapClusters1 \/ SplitStep1 \/ SplitReturn1 \/ GenerateLayers1
    \/ ResultLayers1 \/ Visualize1 \/ Statistics1 \/ Respond1

SpecConc == Init /\ [][NextConc]_vars

\* --------------------------------------------- requests through /process
\* The /process handler reads n_layers, n_segments and max_regions_per_color
\* from the form with int(...) and passes them on as they are (server.py
\* 85-93); one request is handled after the other, each answered before the
\* next begins.
HandlerRequests ==
    [image : Images \cup UniformImages,
     n_layers : {0, 3},
     n_segments : {0, DefaultNSegments},
     compactness : {DefaultCompactness},
     distance_threshold : {"off", "auto"},
     max_regions_per_color : {0, 2},
     edge_mode : {"soft"},
     visualize_steps : {TRUE}]

BeginRequest ==
    \E i \in Calls, request \in HandlerRequests :
        /\ \A j \in Calls : j < i => response[j] # None
        /\ Receive(i, request)

NextHandler ==
    \/ BeginRequest
    \/ Load1 \/ CacheCheck1 \/ Slic1 \/ Extract1 \/ CacheUpdate1 \/ KMeans1
    \/ MapClusters1 \/ SplitStep1 \/ SplitReturn1 \/ GenerateLayers1
    \/ ResultLayers1 \/ Visualize1 \/ Statistics1 \/ Respond1

SpecHandler == Init /\ [][NextHandler]_vars

\* ------------------------------------------- _calculate_statistics, alone
\* The statistics of any list of one or two layers, the layers drawn from
\* a family that has layers without a visible pixel, layers whose alpha
\* outside the mask is exactly at the 0.01 threshold, and colours that
\* differ from pixel to pixel.
StatisticsMasks ==
    {{}, {0}, {p \in Pixels : Row(p) = 0}, Pixels} \cup {MaskOf(LayoutGrid, k) : k \in 0..3}

StatisticsLayers ==
    {[rgb |-> [p \in Pixels |-> (c + 7 * p) % (ColourMax + 1)],
      alpha |-> [p \in Pixels |-> IF p \in m THEN hi ELSE lo]] :
        m \in StatisticsMasks, c \in {0, 100},
        hi \in {AlphaOne, AlphaOne \div 50}, lo \in {0, AlphaOne \div 100}}

InitStatistics ==
    \E first \in StatisticsLayers, rest \in {<< >>} \cup {<<l>> : l \in StatisticsLayers} :
        /\ original_image = ImagePixels("A")
        /\ superpixels = None
        /\ clusters = None
        /\ layers = <<first>> \o rest
        /\ cache = EmptyCache
        /\ pc = [i \in Calls |-> IF i = 1 THEN "statistics" ELSE "idle"]
        /\ params = [i \in Calls |-> None]
        /\ local = [i \in Calls |-> NoLocal]
        /\ result = [i \in Calls |->
                        IF i = 1
                        THEN [status |-> "success", layers |-> <<first>> \o rest,
                              statistics |-> << >>, visualizations |-> << >>]
                        ELSE None]
        /\ response = [i \in Calls |-> None]
        /\ uploads = {}

NextStatistics == Statistics1

SpecStatistics == InitStatistics /\ [][NextStatistics]_vars

\* ------------------------------------------- calls on a used processor
\* Sequential calls on a processor that has already served one call with
\* visualize_steps on: its fields and its cache, the static visualizations
\* included, are what that call left behind.
WarmRequests ==
    [image : Images,
     n_layers : {2},
     n_segments : {DefaultNSegments},
     compactness : {DefaultCompactness},
     distance_threshold : {"auto"},
     max_regions_per_color : {2},
     edge_mode : {"soft"},
     visualize_steps : BOOLEAN]

\* The fields of the processor after process_image has returned for the
\* request on a fresh instance (a miss that ran every stage).
ProcessorAfter(request) ==
    LET image == ImagePixels(request.image)
        segments == perform_slic(image, request.n_segments, request.compactness)
        colors == extract_superpixel_colors(image, segments)
        cluster_labels == fit_predict(colors, request.n_layers)
        pixel_clusters == map_to_pixels(cluster_labels, segments)
        final == IF request.distance_threshold # "off"
                 THEN apply_distance_threshold(pixel_clusters, request.distance_threshold,
                                               request.n_layers,
                                               request.max_regions_per_color)
                 ELSE pixel_clusters
    IN  [original_image |-> image,
         superpixels |-> segments,
         clusters |-> cluster_centres(colors, cluster_labels, request.n_layers),
         layers |-> generate_layers(image, final, request.edge_mode),
         cache |-> [image_path |-> Some(content_hash(request.image)),
                    superpixels |-> segments,
                    superpixel_colors |-> colors,
                    n_segments |-> Some(request.n_segments),
                    compactness |-> Some(request.compactness),
                    static_visualizations |->
                        IF request.visualize_steps
                        THEN static_visualizations(image, segments, colors)
                        ELSE None]]

InitWarm ==
    \E earlier \in {r \in WarmRequests : r.visualize_steps} :
        LET after == ProcessorAfter(earlier)
        IN  /\ original_image = after.original_image
            /\ superpixels = after.superpixels
            /\ clusters = after.clusters
            /\ layers = after.layers
            /\ cache = after.cache
            /\ pc = [i \in Calls |-> "idle"]
            /\ params = [i \in Calls |-> None]
            /\ local = [i \in Calls |-> NoLocal]
            /\ result = [i \in Calls |-> None]
            /\ response = [i \in Calls |-> None]
            /\ uploads = {}

BeginWarm ==
    \E i \in Calls, request \in WarmRequests :
        /\ \A j \in Calls : j < i => pc[j] \in {"done", "raised"}
        /\ Begin(i, request)

NextWarm ==
    \/ BeginWarm
    \/ Load1 \/ CacheCheck1 \/ Slic1 \/ Extract1 \/ CacheUpdate1 \/ KMeans1
    \/ MapClusters1 \/ SplitStep1 \/ SplitReturn1 \/ GenerateLayers1
    \/ ResultLayers1 \/ Visualize1 \/ Statistics1

SpecWarm == InitWarm /\ [][NextWarm]_vars

\* ================================================================ claims
\* The invocation has its layer list in result['layers'].
HasLayers(i) == pc[i] \in {"visualize", "statistics", "done"}
\* The invocation has returned.
Returned(i) == pc[i] = "done"
\* The splitter's loop has ended and it is about to return: the input map is
\* in pixel_clusters, the output map in split_result.
SplitEnded(i) == pc[i] = "split" /\ local[i].cluster_id >= params[i].n_layers

\* C1.  Hard-mode layers partition the canvas: at every pixel exactly one
\* layer has alpha 1 and every other layer has alpha 0, so the alphas sum
\* to exactly 1.
C1_HardLayersPartition ==
    \A i \in Calls :
        (HasLayers(i) /\ params[i].edge_mode = "hard") =>
            LET ls == result[i].layers
            IN  \A p \in Pixels :
                    /\ \A k \in 1..Len(ls) : ls[k].alpha[p] \in {0, AlphaOne}
                    /\ Cardinality({k \in 1..Len(ls) : ls[k].alpha[p] = AlphaOne}) = 1
                    /\ SumSet([k \in 1..Len(ls) |-> ls[k].alpha[p]], 1..Len(ls)) = AlphaOne

\* A hard-mode result with at least three layers, one of them from a label
\* the splitter allocated.
C1_Witness ==
    \E i \in Calls :
        /\ Returned(i) /\ params[i].edge_mode = "hard"
        /\ Len(result[i].layers) >= 3
        /\ \E p \in Pixels : local[i].pixel_clusters[p] >= params[i].n_layers

InputMap(i) == map_to_pixels(local[i].cluster_labels, superpixels)
\* The splitter ran in this invocation.
SplitterOn(i) == params[i].distance_threshold # "off"
\* The labels the pixels of the set S carry in the label map m.
LabelsOn(m, S) == {m[p] : p \in S}

\* C3.  In the returned layer list, in both edge modes, the layers are in
\* non-increasing order of visible pixel count (the number of pixels whose
\* alpha exceeds the statistics threshold 0.01).
C3_LayersByVisibleCount ==
    \A i \in Calls :
        Returned(i) =>
            LET ls == result[i].layers
            IN  \A k \in 1..(Len(ls) - 1) :
                    Cardinality(visible(ls[k])) >= Cardinality(visible(ls[k + 1]))

\* C4.  For every input label map over 0..n_layers-1 and every
\* max_regions_per_color M >= 1 the splitter keeps every pixel labelled, and
\* the pixels that carried cluster c before the stage carry at most M
\* distinct labels after it.
C4_AtMostMLabelsPerCluster ==
    \A i \in Calls :
        (SplitEnded(i) /\ params[i].max_regions_per_color >= 1) =>
            /\ DOMAIN local[i].split_result = Pixels
            /\ \A c \in 0..(params[i].n_layers - 1) :
                    Cardinality(LabelsOn(local[i].split_result,
                                         MaskOf(local[i].pixel_clusters, c)))
                        <= params[i].max_regions_per_color

\* C5.  The splitter only grows the label space: a label with a pixel in the
\* input map has a pixel in the output map, and a label of the output map
\* that is not in the input map is a fresh index, allocated consecutively
\* from n_layers (so it lies in n_layers..next_label-1).
C5_LabelSpaceOnlyGrows ==
    \A i \in Calls :
        SplitEnded(i) =>
            LET before == Unique(local[i].pixel_clusters)
                after == Unique(local[i].split_result)
            IN  /\ before \subseteq after
                /\ \A l \in after \ before :
                        l >= params[i].n_layers /\ l < local[i].next_label

\* C6.  When a cluster's pixels form more than M components
\* (M = max_regions_per_color), the splitter ranks them by pixel count,
\* largest first, keeps the largest under the cluster's label, gives each of
\* the next M-1 its own freshly allocated label, and relabels every
\* remaining component to the last label newly allocated for this cluster.
C6_ExceedingComponentsMerged ==
    [][\A i \in Calls :
        LET c == local[i].cluster_id
            M == params[i].max_regions_per_color
            labeled == ndimage_label(MaskOf(local[i].pixel_clusters, c))
            n == Len(labeled)
            order == sorted_components(labeled)
            fresh == local[i].next_label..(local'[i].next_label - 1)
            out == local'[i].split_result
        IN  (SplitStep(i) /\ M >= 1 /\ n > M) =>
                /\ LabelsOn(out, labeled[order[1]]) = {c}
                /\ Cardinality(fresh) = M - 1
                /\ \A k \in 2..M : \E l \in fresh : LabelsOn(out, labeled[order[k]]) = {l}
                /\ \A j, k \in 2..M :
                        j # k => LabelsOn(out, labeled[order[j]])
                                    # LabelsOn(out, labeled[order[k]])
                /\ \A k \in (M + 1)..n :
                        /\ fresh # {}
                        /\ LabelsOn(out, labeled[order[k]]) = {SetMax(fresh)}
      ]_vars

\* The layer _generate_layers makes of label l of the invocation's final
\* label map.
LayerOf(i, l) ==
    make_layer(ImagePixels(params[i].image), MaskOf(local[i].pixel_clusters, l),
               params[i].edge_mode)
\* The returned list holds the layer of label l.
HasLayerOf(i, l) == \E k \in 1..Len(result[i].layers) : result[i].layers[k] = LayerOf(i, l)
\* Cluster c of the map m is a blob and one smaller speck.
BlobAndSpeck(m, c) ==
    LET labeled == ndimage_label(MaskOf(m, c))
    IN  Len(labeled) = 2 /\ Cardinality(labeled[1]) # Cardinality(labeled[2])
\* The larger and the smaller of the two.
Blob(m, c) ==
    LET labeled == ndimage_label(MaskOf(m, c))
    IN  IF Cardinality(labeled[1]) > Cardinality(labeled[2]) THEN labeled[1] ELSE labeled[2]
Speck(m, c) == MaskOf(m, c) \ Blob(m, c)

OwnResult(request) ==
    LET image == ImagePixels(request.image)
        segments == perform_slic(image, request.n_segments, request.compactness)
        colors == extract_superpixel_colors(image, segments)
        cluster_labels == fit_predict(colors, request.n_layers)
        pixel_clusters == map_to_pixels(cluster_labels, segments)
        final == IF request.distance_threshold # "off"
                 THEN apply_distance_threshold(pixel_clusters, request.distance_threshold,
                                               request.n_layers,
                                               request.max_regions_per_color)
                 ELSE pixel_clusters
        own_layers == generate_layers(image, final, request.edge_mode)
    IN  [layers |-> own_layers, statistics |-> calculate_statistics(final, own_layers)]

\* C9.  When two invocations on the shared instance interleave, with
\* different cache keys, each invocation's layers and statistics are
\* computed only from its own image's superpixels, features and label map:
\* an invocation that ends has ended normally, with the result its own
\* image gives.
C9_InvocationsIsolated ==
    \A i \in Calls :
        (/\ pc[i] \in {"done", "raised"}
         /\ \A j \in Calls \ {i} :
                params[j] # None => params[j].image # params[i].image) =>
            /\ pc[i] = "done"
            /\ result[i].layers = OwnResult(params[i]).layers
            /\ result[i].statistics = OwnResult(params[i]).statistics

\* Call j follows call j-1 with the same cache key, n_segments and
\* compactness and another n_layers.
SamePartitioning(j) ==
    /\ j - 1 \in Calls /\ params[j] # None
    /\ params[j].image = params[j - 1].image
    /\ params[j].n_segments = params[j - 1].n_segments
    /\ params[j].compactness = params[j - 1].compactness
    /\ params[j].n_layers # params[j - 1].n_layers
\* No call has been made after call j: the instance's fields are as call j
\* left them.
Latest(j) == \A k \in Calls : k > j => pc[k] = "idle"
\* The invocation is past the cache check.
PastCheck(i) == pc[i] \notin {"idle", "load", "check"}
\* The invocation is past KMeans.
PastKMeans(i) == PastCheck(i) /\ local[i].cluster_labels # None

\* C10.  Of two successive calls with the same cache key, n_segments and
\* compactness but different n_layers, the second reuses the cached
\* superpixel label map and feature array of the first (it does not run
\* the partitioning or the feature extraction again), and each call
\* clusters into its own n_layers.
C10_SecondCallReusesSuperpixels ==
    \A j \in Calls :
        (SamePartitioning(j) /\ PastCheck(j)) =>
            /\ local[j].can_reuse_superpixels
            /\ pc[j] \notin {"slic", "extract", "cache_image_path", "cache_n_segments",
                             "cache_compactness", "cache_superpixels",
                             "cache_superpixel_colors"}
            /\ local[j].superpixel_colors = local[j - 1].superpixel_colors
            /\ Latest(j) =>
                    /\ superpixels = cache.superpixels
                    /\ superpixels = perform_slic(ImagePixels(params[j].image),
                                                  params[j].n_segments,
                                                  params[j].compactness)
                    /\ local[j].superpixel_colors = cache.superpixel_colors
            /\ \A i \in {j - 1, j} :
                    PastKMeans(i) =>
                        /\ local[i].cluster_labels
                                = fit_predict(local[i].superpixel_colors, params[i].n_layers)
                        /\ \A s \in DOMAIN local[i].cluster_labels :
                                local[i].cluster_labels[s] \in 0..(params[i].n_layers - 1)
            /\ (Latest(j) /\ PastKMeans(j)) => DOMAIN clusters = 0..(params[j].n_layers - 1)

\* The second of two such calls has returned, on a cache hit, with a
\* clustering that differs from the first call's in its number of clusters.
C10_Witness ==
    \E j \in Calls :
        /\ SamePartitioning(j) /\ Returned(j)
        /\ local[j].can_reuse_superpixels
        /\ ~local[j - 1].can_reuse_superpixels
        /\ local[j].cluster_labels # local[j - 1].cluster_labels
        /\ Cardinality({local[j].cluster_labels[s] : s \in DOMAIN local[j].cluster_labels})
                # Cardinality({local[j - 1].cluster_labels[s] :
                                    s \in DOMAIN local[j - 1].cluster_labels})

\* The five fields of the cache entry a computation for the request stores.
CacheEntryOf(request) ==
    LET image == ImagePixels(request.image)
        segments == perform_slic(image, request.n_segments, request.compactness)
    IN  [image_path |-> Some(content_hash(request.image)),
         superpixels |-> segments,
         superpixel_colors |-> extract_superpixel_colors(image, segments),
         n_segments |-> Some(request.n_segments),
         compactness |-> Some(request.compactness)]
\* The same five fields of the cache as it stands.
StoredEntry ==
    [image_path |-> cache.image_path, superpixels |-> cache.superpixels,
     superpixel_colors |-> cache.superpixel_colors, n_segments |-> cache.n_segments,
     compactness |-> cache.compactness]
\* Call j has the cache key, n_segments and compactness of the call before it.
SameKeyAndParameters(j) ==
    /\ j - 1 \in Calls
    /\ params[j].image = params[j - 1].image
    /\ params[j].n_segments = params[j - 1].n_segments
    /\ params[j].compactness = params[j - 1].compactness
\* The invocation is past the cache check and, on a miss, the cache update.
PastCacheUpdate(i) == local[i].superpixel_colors # None /\ pc[i] \notin
    {"cache_image_path", "cache_n_segments", "cache_compactness",
     "cache_superpixels", "cache_superpixel_colors"}

\* C11.  The cache holds one entry.  A call reuses the cached regions and
\* features only if its cache key, n_segments and compactness all equal the
\* stored entry's (those of the call before); otherwise it recomputes them
\* and replaces the stored entry, key, parameters, regions and features
\* together, so that the entry is always the one computation of the latest
\* call's key and parameters.
C11_SingleEntryReplacedTogether ==
    \A j \in Calls :
        /\ PastCheck(j) => (local[j].can_reuse_superpixels <=> SameKeyAndParameters(j))
        /\ (Latest(j) /\ PastCheck(j) /\ PastCacheUpdate(j)) =>
                StoredEntry = CacheEntryOf(params[j])

\* A second call has missed the cache (its compactness differs from the
\* first call's, its key does not) and has replaced the entry.
C11_Witness ==
    \E j \in Calls :
        /\ j - 1 \in Calls /\ Returned(j) /\ Latest(j)
        /\ params[j].image = params[j - 1].image
        /\ params[j].compactness # params[j - 1].compactness
        /\ ~local[j].can_reuse_superpixels
        /\ StoredEntry = CacheEntryOf(params[j])
        /\ CacheEntryOf(params[j]).superpixels # CacheEntryOf(params[j - 1]).superpixels

\* C12.  The cache is only an optimization: the layers and statistics a
\* call returns are the ones the same call returns on a processor whose
\* cache is empty, whatever calls came before it.  (Stated where the call
\* has returned and no later call has begun; a result does not change after
\* its return.)
C12_CacheIsOptimization ==
    \A j \in Calls :
        (Returned(j) /\ Latest(j)) =>
            LET own == OwnResult(params[j])
            IN  /\ result[j].layers = own.layers
                /\ result[j].statistics = own.statistics

\* A call has returned from a cache hit, with another n_layers than the call
\* that filled the cache.
C12_Witness ==
    \E j \in Calls :
        /\ Returned(j) /\ local[j].can_reuse_superpixels
        /\ params[j].n_layers # params[j - 1].n_layers
        /\ Len(result[j].layers) >= 3


\* ------------------------------------------------------------------- C13
\* The request's n_layers, n_segments or max_regions_per_color is out of
\* range.
InvalidParameters(request) ==
    \/ request.n_layers <= 0
    \/ request.n_segments <= 0
    \/ request.max_regions_per_color < 1

\* The positions of an invocation at which some stage has computed: after
\* SLIC, after the features, in or after the cache update, after KMeans.
ComputingPositions ==
    {"extract", "cache_image_path", "cache_n_segments", "cache_compactness",
     "cache_superpixels", "cache_superpixel_colors", "map", "split", "layers",
     "result_layers", "visualize", "statistics", "done"}

\* C13: a call with n_layers <= 0, n_segments <= 0 or
\* max_regions_per_color < 1 fails before any computation: it is never at
\* a position after the partitioning, the feature extraction, the cache
\* update, the clustering or the splitting, it reaches KMeans only on
\* cached superpixels, it never returns, and when it has raised it has
\* computed no features.
C13_InvalidParametersFailFast ==
    \A i \in Calls :
        (params[i] # None /\ InvalidParameters(params[i]))
            => /\ pc[i] \notin ComputingPositions
               /\ (pc[i] = "kmeans" => local[i].can_reuse_superpixels)
               /\ (pc[i] = "raised" =>
                      (local[i].superpixel_colors = None
                       \/ local[i].can_reuse_superpixels))

\* ------------------------------------------------------------------- C14
\* The invocation runs on the uniform image with 3 layers requested, valid
\* parameters and the splitter off.
UniformThreeLayers(i) ==
    /\ params[i] # None
    /\ params[i].image \in UniformImages
    /\ params[i].n_layers = 3
    /\ params[i].n_segments >= 1
    /\ params[i].distance_threshold = "off"

\* C14: on a uniform single-colour image with layer_count = 3 and the
\* splitter off the call does not fail, and when it has returned the
\* statistics list 3 layers, two of them with pixel_count 0.
C14_UniformImageThreeLayers ==
    \A i \in Calls :
        UniformThreeLayers(i)
            => /\ pc[i] # "raised"
               /\ Returned(i) =>
                    LET sizes == result[i].statistics.layer_sizes
                    IN  /\ result[i].statistics.n_layers = 3
                        /\ Len(sizes) = 3
                        /\ Cardinality({k \in 1..Len(sizes) : sizes[k].pixel_count = 0}) = 2

\* ------------------------------------------------------------------- C15
\* The sum of the percentages of a statistics report, in hundredths of a
\* percent.
PercentageSum(statistics) ==
    SumSet([k \in DOMAIN statistics.layer_sizes |-> statistics.layer_sizes[k].percentage],
           DOMAIN statistics.layer_sizes)

\* C15: in every result of process_image, in both edge modes, the
\* percentages of statistics['layer_sizes'] sum to at most 100%.
C15_PercentagesAtMostHundred ==
    \A i \in Calls :
        Returned(i) => PercentageSum(result[i].statistics) <= 100 * 100

\* ------------------------------------------------------------------- C16
\* The pixels of a layer whose alpha exceeds 0.01.
AboveThreshold(layer) == {p \in Pixels : layer.alpha[p] * 100 > AlphaOne}

\* The entry of a statistics report for the layer at index layer_id.
EntryOf(statistics, layer_id) ==
    statistics.layer_sizes[CHOOSE k \in DOMAIN statistics.layer_sizes :
                                statistics.layer_sizes[k].layer_id = layer_id]

\* C16: _calculate_statistics reports one entry per layer; a layer with
\* no pixel above the 0.01 alpha threshold has pixel_count 0, percentage
\* 0.0 and average colour 0 (black), and every other layer's colour is the
\* mean of its pixels above the threshold, truncated.
C16_EmptyLayerReportsZero ==
    \A i \in Calls :
        Returned(i) =>
            /\ Len(result[i].statistics.layer_sizes) = Len(layers)
            /\ \A k \in 1..Len(layers) :
                LET entry == EntryOf(result[i].statistics, k - 1)
                    above == AboveThreshold(layers[k])
                IN  /\ entry.pixel_count = Cardinality(above)
                    /\ above = {} => (entry.percentage = 0 /\ entry.average_color_rgb = 0)
                    /\ above # {} =>
                        entry.average_color_rgb
                            = SumSet(layers[k].rgb, above) \div Cardinality(above)

\* The statistics of two layers have been computed, one of them without a
\* pixel above the threshold though with alpha exactly 0.01 somewhere, the
\* other visible on a part of the canvas only.
C16_Witness ==
    /\ Returned(1)
    /\ Len(layers) = 2
    /\ AboveThreshold(layers[1]) = {}
    /\ \E p \in Pixels : layers[1].alpha[p] > 0
    /\ AboveThreshold(layers[2]) \notin {{}, Pixels}
    /\ EntryOf(result[1].statistics, 0).pixel_count = 0
    /\ EntryOf(result[1].statistics, 1).average_color_rgb > 0

\* ------------------------------------------------------------------- C17
\* The invocation has failed: an exception has left process_image.
Failed(i) == pc[i] = "raised"

\* C17: what the /process handler answers for an invocation that failed is
\* one error object with status 500, without layers or any other field of
\* the result; an answer, once given, is never replaced or followed by a
\* second one.
C17_FailureIsSingleErrorObject ==
    [][\A i \in Calls :
            /\ (Failed(i)' /\ response'[i] # None)
                    => /\ response'[i][1].code = 500
                       /\ DOMAIN response'[i][1].body = {"error"}
            /\ response[i] # None => response'[i] = response[i]
      ]_vars

\* An invocation failed after result['layers'] was assigned (in the
\* visualizations), and the handler has answered it with status 500.
C17_Witness ==
    \E i \in Calls :
        /\ Failed(i)
        /\ result[i].layers # << >>
        /\ response[i] # None
        /\ response[i][1].code = 500

\* ------------------------------------------------------------------- C18
\* The labels the splitter has written on the pixels that carried cluster c
\* in its input map.
WrittenFor(i, c) == LabelsOn(local[i].split_result, MaskOf(local[i].pixel_clusters, c))

\* C18: for every max_regions_per_color M >= 1 the splitter writes the
\* pixels of cluster c only to label c or to labels allocated for c: at
\* its return the label sets of two different clusters are disjoint, and
\* a pixel of cluster c carries c or a label from n_layers on.
C18_ClustersWriteDisjointLabels ==
    \A i \in Calls :
        (SplitEnded(i) /\ params[i].max_regions_per_color >= 1) =>
            \A c \in 0..(params[i].n_layers - 1) :
                /\ \A l \in WrittenFor(i, c) : l = c \/ l >= params[i].n_layers
                /\ \A d \in 0..(params[i].n_layers - 1) :
                        c # d => WrittenFor(i, c) \cap WrittenFor(i, d) = {}

\* ------------------------------------------------------------------- C19
\* Two invocations on the identical image with identical parameters (all
\* but visualize_steps, which clustering does not read).
SameImageAndParameters(i, j) ==
    /\ params[i] # None /\ params[j] # None
    /\ [params[i] EXCEPT !.visualize_steps = TRUE]
            = [params[j] EXCEPT !.visualize_steps = TRUE]

\* The invocation has its per-pixel label assignment (the splitter's
\* result included).
HasLabelMap(i) == pc[i] \in {"layers", "result_layers", "visualize", "statistics", "done"}

C20_AlphaInRange ==
    \A i \in Calls :
        HasLayers(i) =>
            \A k \in 1..Len(result[i].layers), p \in Pixels :
                LET a == result[i].layers[k].alpha[p]
                IN  /\ a >= 0 /\ a <= AlphaOne
                    /\ params[i].edge_mode = "hard" => (a = 0 \/ a = AlphaOne)

\* A soft-mode result of at least two layers in which one layer has alpha
\* 1 at a pixel, alpha 0 at another and a value strictly between at a
\* third.
C20_Witness ==
    \E i \in Calls :
        /\ Returned(i) /\ params[i].edge_mode = "soft"
        /\ Len(result[i].layers) >= 2
        /\ \E k \in 1..Len(result[i].layers) :
            /\ \E p \in Pixels : result[i].layers[k].alpha[p] = AlphaOne
            /\ \E p \in Pixels : result[i].layers[k].alpha[p] = 0
            /\ \E p \in Pixels : /\ result[i].layers[k].alpha[p] > 0
                                 /\ result[i].layers[k].alpha[p] < AlphaOne

\* ------------------------------------------------------------------- C21
\* The invocation is past the mapping step (line 113).
PastMap(i) ==
    pc[i] \in {"split", "layers", "result_layers", "visualize", "statistics", "done"}

\* C21: with distance_threshold 'off' the splitter is not applied: the
\* invocation never stands in the splitter, and the label map that reaches
\* _generate_layers, and stays to the return, is the cluster assignment
\* mapped through the superpixels, no label changed or added.
C21_OffPassesLabelMapUnchanged ==
    \A i \in Calls :
        (PastMap(i) /\ params[i].distance_threshold = "off") =>
            /\ pc[i] # "split"
            /\ local[i].pixel_clusters = InputMap(i)
            /\ Unique(local[i].pixel_clusters) \subseteq 0..(params[i].n_layers - 1)

\* An invocation with the splitter off has returned on a label map that the
\* splitter, had it run in 'auto' mode with the same limit, would have
\* changed.
C21_Witness ==
    \E i \in Calls :
        /\ Returned(i) /\ params[i].distance_threshold = "off"
        /\ apply_distance_threshold(local[i].pixel_clusters, "auto", params[i].n_layers,
                                    params[i].max_regions_per_color)
                # local[i].pixel_clusters

\* ------------------------------------------------------------------- C22
\* The membership mask of the k-th emitted layer: the pixels of the label
\* at rank k of the final label map.
LayerMask(i, k) ==
    MaskOf(local[i].pixel_clusters, sorted_clusters(local[i].pixel_clusters)[k])

\* C22: in soft mode, at every pixel where a layer's blurred alpha is not
\* zero the layer's RGB is the source image's colour at full strength, and
\* the pixel lies within the 3x3 dilation of the layer's membership mask.
C22_SoftColourAtFullStrength ==
    \A i \in Calls :
        (HasLayers(i) /\ params[i].edge_mode = "soft") =>
            \A k \in 1..Len(result[i].layers), p \in Pixels :
                result[i].layers[k].alpha[p] # 0 =>
                    /\ result[i].layers[k].rgb[p] = ImagePixels(params[i].image)[p]
                    /\ \E q \in LayerMask(i, k) :
                            Abs(Row(p) - Row(q)) <= 1 /\ Abs(Col(p) - Col(q)) <= 1

\* A soft-mode result in which a layer has, at a pixel outside its own
\* mask, an alpha strictly between 0 and 1 and a colour that is not black.
C22_Witness ==
    \E i \in Calls :
        /\ Returned(i) /\ params[i].edge_mode = "soft"
        /\ \E k \in 1..Len(result[i].layers), p \in Pixels :
                /\ p \notin LayerMask(i, k)
                /\ result[i].layers[k].alpha[p] > 0
                /\ result[i].layers[k].alpha[p] < AlphaOne
                /\ result[i].layers[k].rgb[p] > 0

\* ------------------------------------------------------------------- C24
\* The keys of a complete visualizations map.
VisualizationKeys ==
    {"original", "superpixels", "superpixel_colors", "clustered", "reconstruction"}

\* C24: every successful call with visualize_steps true returns a
\* visualizations map with all five entries, whether or not it was served
\* from the cache.
C24_AllFiveVisualizations ==
    \A i \in Calls :
        (Returned(i) /\ params[i].visualize_steps) =>
            DOMAIN result[i].visualizations = VisualizationKeys

\* ------------------------------------------------------------------- C23
\* The three static visualizations.
StaticKeys == {"original", "superpixels", "superpixel_colors"}

\* The static visualizations generated from a request's own image and
\* partitioning parameters.
StaticOf(request) ==
    LET image == ImagePixels(request.image)
        segments == perform_slic(image, request.n_segments, request.compactness)
    IN  static_visualizations(image, segments, extract_superpixel_colors(image, segments))

\* C23: whenever a call with visualize_steps true is served from the
\* cache, each static visualization it returns is the one generated from
\* the image and partitioning parameters of the entry that served it,
\* which are the call's own.
C23_StaticVisualizationsOfServingEntry ==
    \A i \in Calls :
        (Returned(i) /\ params[i].visualize_steps /\ local[i].can_reuse_superpixels) =>
            \A key \in StaticKeys \cap DOMAIN result[i].visualizations :
                result[i].visualizations[key] = StaticOf(params[i])[key]

\* ------------------------------------------------------------------- C25
\* C25: no request ends with its saved upload still on disk: once the
\* /process handler has answered a request, with a result or with an
\* error, the file it saved for that request is gone from the upload
\* folder.
C25_UploadRemovedByRequest ==
    \A i \in Calls : response[i] # None => i \notin uploads
=============================================================================
